---- MODULE Spec2Model ----
(***************************************************************************)
(* http-smpp-bridge: the SMPP peer pool of the multi-peer bridge           *)
(* (src/unnamed/part_000): per-peer connect / bind / reconnect state,      *)
(* the router, and the deliver_sm -> HTTP egress -> deliver_sm_resp path.  *)
(*                                                                         *)
(* JavaScript objects are modelled with their identity: peerSessions maps  *)
(* a peer to an object, and every connection's handlers close over the     *)
(* object that connectSMPPPeer read from the map when it created them.     *)
(*                                                                         *)
(* Specifications:                                                         *)
(*   Spec        the peer pool against peers that accept or refuse binds,  *)
(*               drop connections and leave refused connections open;      *)
(*   SpecLive    Spec with the event loop's guarantee that an armed timer  *)
(*               fires;                                                    *)
(*   SpecRoute   every routing configuration, the pool against peers that  *)
(*               accept binds and drop connections, and routeToPeer;       *)
(*   SpecDeliver the same pool, and deliver_sm PDUs forwarded to the SMSC. *)
(*   SpecHttp    the same pool under any TON / NPI settings, and GET       *)
(*               /send_sms requests against peers that answer submit_sm or *)
(*               stay silent;                                              *)
(*   SpecHttpLive the same with the example's settings and the guarantee   *)
(*               that armed timers fire;                                   *)
(*   SpecServer  the local SMPP server against clients that bind, submit   *)
(*               and hang up;                                              *)
(*   SpecSingle  the single-peer bridge (src/app.js): its connection, its  *)
(*               reconnects and its deliver_sm handler.                    *)
(***************************************************************************)
EXTENDS Integers, FiniteSets, Sequences, TLC

\* ---------------------------------------------------------------- bounds
\* smppPeers is indexed in configuration order.
Peers == {1, 2}
NumPeers == Cardinality(Peers)
\* Connection objects (smpp.connect results) alive at once in the process.
MaxConns == 3
\* Timer handles (setTimeout results) pending at once, per peer.
MaxTimers == 2
\* deliver_sm handlers in flight at once.
MaxInflight == 1
\* The timeout of waitForBoundPeer, in poll intervals (15000 ms / 100 ms,
\* scaled down).
MaxPolls == 2

Conns == 1..MaxConns
\* Peer-state objects: object 0 is the one the startup loop puts in the map,
\* object k is the one createSMPPSession makes together with connection k.
Objs == 0..MaxConns
\* A handle is not handed out again while a pending timer has it.
TimerIds == 1..(MaxTimers + 1)
Handlers == 1..MaxInflight
\* The peers that send deliver_sm PDUs (the other one only takes submit_sm).
Senders == {1}
\* sequence_number values of the deliver_sm PDUs a peer sends.
Seqs == {1, 2}

NULL == 0
ESME_RBINDFAIL == 13
ESME_RSYSERR == 8
\* command_status values a peer answers bind_transceiver with.
BindStatuses == {0, ESME_RBINDFAIL}
\* forwardToKamailio(..., retries = 3, ...)
retries == 3

\* Destination addresses, as digit strings.
Dests == {<<4, 9, 1, 1>>, <<4, 4, 2, 0>>, <<3, 3, 4>>}

\* route_regex values: absent, one that new RegExp rejects, and the anchored
\* prefixes ^49 and ^4.
NoRegex == [kind |-> "none", prefix |-> <<>>]
BadRegex == [kind |-> "invalid", prefix |-> <<>>]
RouteRegexes ==
  {NoRegex, BadRegex,
   [kind |-> "prefix", prefix |-> <<4, 9>>],
   [kind |-> "prefix", prefix |-> <<4>>]}

\* One entry of smpp_peers: what routing reads of it.
PeerConfigs == [route_regex : RouteRegexes, default : BOOLEAN]

VARIABLES
  smppPeers,   \* the configuration: peer -> its entry
  pool,        \* per peer: peerSessions' entry, the objects, connections, timers
  lastRoute,   \* the last routeToPeer call: argument, result, what it read
  handlers,    \* the deliver_sm handlers ('pdu' listener invocations)
  addrConf,    \* the configuration: peer -> its TON / NPI settings
  requests,    \* the GET /send_sms requests (handler invocations)
  server,      \* the sessions of the local SMPP server
  single       \* the single-peer bridge (src/app.js): its globals, its
               \* connections and its deliver_sm handler

vars ==
  <<smppPeers, pool, lastRoute, handlers, addrConf, requests, server, single>>

\* What the peer pool's events and the deliver_sm path leave alone.
ingressVars == <<addrConf, requests, server, single>>

\* ------------------------------------------------------------ data model
\* { session, isBound, isConnecting, reconnectTimeout }
NewPeerState(session) ==
  [session |-> session, isBound |-> FALSE, isConnecting |-> FALSE,
   reconnectTimeout |-> NULL]

\* A connection that does not exist (never made, or closed and forgotten).
NoConn ==
  [state |-> "closed", dying |-> FALSE, st |-> 0, bindResps |-> <<>>,
   pduListeners |-> 0]

\* smpp.connect(): a socket that is connecting; no listener yet.
NewConn(st) ==
  [state |-> "connecting", dying |-> FALSE, st |-> st, bindResps |-> <<>>,
   pduListeners |-> 0]

\* session.connected: true from the socket's connect until its close.
Connected(conn) == conn.state \in {"binding", "bound", "rejected"}

Min(S) == CHOOSE x \in S : \A y \in S : x <= y

\* Objects some closure or the map still refers to.
Live(S) ==
  {S.entry}
    \cup {S.conns[c].st : c \in {d \in Conns : S.conns[d].state # "closed"}}
    \cup {t.obj : t \in S.timers}

\* Slots whose connection and object nothing refers to any more.
FreeSlots(S, busy) ==
  {c \in Conns :
     /\ S.conns[c].state = "closed"
     /\ c \notin Live(S)
     /\ c \notin busy
     /\ \A o \in Live(S) : S.objs[o].session # c}

\* Forget what nothing refers to (garbage collection).
Normalize(S) ==
  LET live == Live(S)
      held == {S.objs[o].session : o \in live}
  IN [S EXCEPT
        !.current = IF @ # NULL /\ S.conns[@].state = "closed" THEN NULL ELSE @,
        !.objs = [o \in Objs |-> IF o \in live THEN S.objs[o]
                                 ELSE NewPeerState(NULL)],
        !.conns = [c \in Conns |->
                     IF S.conns[c].state # "closed" THEN S.conns[c]
                     ELSE IF c \in held
                          THEN [NoConn EXCEPT !.bindResps = S.conns[c].bindResps]
                          ELSE NoConn]]

\* ------------------------------------------------------------ operations
\* createSMPPSession(peer), making connection c and its fresh map entry;
\* current names the connection made last, while it is open.
createSMPPSession(S, c) ==
  LET old == S.objs[S.entry].session
      closed == IF old # NULL /\ S.conns[old].state # "closed"
                THEN [S.conns EXCEPT ![old].dying = TRUE]
                ELSE S.conns
  IN [S EXCEPT !.conns = [closed EXCEPT ![c] = NewConn(0)],
               !.objs[c] = NewPeerState(c),
               !.entry = c,
               !.current = c]

\* The guard of connectSMPPPeer: "already connecting or bound".
ConnectSkipped(S) ==
  LET peerState == S.objs[S.entry]
  IN \/ peerState.isConnecting
     \/ /\ peerState.session # NULL
        /\ Connected(S.conns[peerState.session])
        /\ peerState.isBound

\* connectSMPPPeer(peer) past its guard; the handlers close over peerState.
connectSMPPPeer(S, c) ==
  LET o == S.entry
      S1 == [S EXCEPT !.objs[o].isConnecting = TRUE]
      S2 == createSMPPSession(S1, c)
  IN [S2 EXCEPT !.conns[c].st = o]

\* scheduleReconnect without the clearTimeout of the pending timer.
scheduleReconnectNoClear(S) ==
  LET o == S.entry
      new == Min(TimerIds \ {t.id : t \in S.timers})
  IN [S EXCEPT !.timers = S.timers \cup {[id |-> new, obj |-> o]},
               !.objs[o].reconnectTimeout = new]

\* scheduleReconnect(peer)
scheduleReconnect(S) ==
  LET o == S.entry
      old == S.objs[o].reconnectTimeout
      kept == IF old # NULL THEN {t \in S.timers : t.id # old} ELSE S.timers
      new == Min(TimerIds \ {t.id : t \in kept})
  IN [S EXCEPT !.timers = kept \cup {[id |-> new, obj |-> o]},
               !.objs[o].reconnectTimeout = new]

\* A handle is left for setTimeout.
TimerAvail(S) == Cardinality(S.timers) < MaxTimers

\* The bind callback without its test of command_status.
onBindRespUnchecked(S, c, status) ==
  LET o == S.conns[c].st
  IN [S EXCEPT !.objs[o].isConnecting = FALSE,
               !.conns[c].bindResps = Append(@, status),
               !.objs[o].isBound = TRUE,
               !.objs[o].session = c,
               !.entry = o,
               !.conns[c].state = "bound",
               !.conns[c].pduListeners = 1]

\* The bind callback of a bridge that attaches a 'pdu' listener on connect and
\* another on bind, with no removeAllListeners in between.
onBindRespKeepListeners(S, c, status) ==
  LET o == S.conns[c].st
      S1 == [S EXCEPT !.objs[o].isConnecting = FALSE,
                      !.conns[c].bindResps = Append(@, status)]
  IN IF status = 0
     THEN [S1 EXCEPT !.objs[o].isBound = TRUE,
                     !.objs[o].session = c,
                     !.entry = o,
                     !.conns[c].state = "bound",
                     !.conns[c].pduListeners = @ + 2]
     ELSE scheduleReconnect(
            [S1 EXCEPT !.objs[o].isBound = FALSE,
                       !.objs[o].session = NULL,
                       !.entry = o,
                       !.conns[c].state = "rejected"])

\* The bind_transceiver callback of connection c.
onBindResp(S, c, status) ==
  LET o == S.conns[c].st
      S1 == [S EXCEPT !.objs[o].isConnecting = FALSE,
                      !.conns[c].bindResps = Append(@, status)]
  IN IF status = 0
     THEN [S1 EXCEPT !.objs[o].isBound = TRUE,
                     !.objs[o].session = c,
                     !.entry = o,
                     !.conns[c].state = "bound",
                     !.conns[c].pduListeners = 1]
     ELSE scheduleReconnect(
            [S1 EXCEPT !.objs[o].isBound = FALSE,
                       !.objs[o].session = NULL,
                       !.entry = o,
                       !.conns[c].state = "rejected"])

\* The close / error handler without its scheduleReconnect call.
onLostNoReconnect(S, c) ==
  LET o == S.conns[c].st
  IN [S EXCEPT !.objs[o].isBound = FALSE,
               !.objs[o].isConnecting = FALSE,
               !.objs[o].session = NULL,
               !.entry = o]

\* The 'close' and the 'error' handler of connection c (the same body).
onLost(S, c) ==
  LET o == S.conns[c].st
  IN scheduleReconnect(
       [S EXCEPT !.objs[o].isBound = FALSE,
                 !.objs[o].isConnecting = FALSE,
                 !.objs[o].session = NULL,
                 !.entry = o])

\* ---------------------------------------------------------------- router
\* peerSessions.get(peer.id)
PeerState(p) == pool[p].objs[pool[p].entry]

\* peerState && peerState.isBound && peerState.session
PeerBound(p) == PeerState(p).isBound /\ PeerState(p).session # NULL

\* smppPeers.find(peer => peer.default === true), NULL when there is none.
defaultPeer ==
  IF \E p \in Peers : smppPeers[p].default
  THEN Min({p \in Peers : smppPeers[p].default})
  ELSE NULL

\* new RegExp(route_regex).test(to) for the anchored prefixes.
RegexTest(regex, to) ==
  /\ Len(to) >= Len(regex.prefix)
  /\ SubSeq(to, 1, Len(regex.prefix)) = regex.prefix

\* The regex step with a route_regex that does not compile taken as a match.
regexSelectsBadRegex(p, to) ==
  /\ smppPeers[p].route_regex.kind # "none"
  /\ \/ smppPeers[p].route_regex.kind = "invalid"
     \/ RegexTest(smppPeers[p].route_regex, to)

\* The regex step of the loop body for a bound peer: route_regex is set, it
\* compiles (the catch only logs) and it matches.
regexSelects(p, to) ==
  /\ smppPeers[p].route_regex.kind # "none"
  /\ smppPeers[p].route_regex.kind # "invalid"
  /\ RegexTest(smppPeers[p].route_regex, to)

\* The loop without its early return: the last matching bound peer wins.
RECURSIVE routeLoopLast(_, _)
routeLoopLast(i, to) ==
  IF i > NumPeers THEN NULL
  ELSE LET rest == routeLoopLast(i + 1, to)
       IN IF rest # NULL THEN rest
          ELSE IF PeerBound(i) /\ regexSelects(i, to) THEN i
          ELSE NULL

\* for (const peer of smppPeers) { ... }, from peer i on; NULL past the end.
RECURSIVE routeLoop(_, _)
routeLoop(i, to) ==
  IF i > NumPeers THEN NULL
  ELSE IF ~PeerBound(i) THEN routeLoop(i + 1, to)
  ELSE IF regexSelects(i, to) THEN i
  ELSE routeLoop(i + 1, to)

\* The fallback without its test of the default peer's state.
defaultRouteUnchecked == defaultPeer

\* The fallback taken only by a default peer that has no route_regex.
defaultRoutePlainOnly ==
  IF /\ defaultPeer # NULL
     /\ PeerBound(defaultPeer)
     /\ smppPeers[defaultPeer].route_regex.kind = "none"
  THEN defaultPeer
  ELSE NULL

\* if (defaultPeer) { ... } return null;
defaultRoute ==
  IF defaultPeer # NULL /\ PeerBound(defaultPeer) THEN defaultPeer ELSE NULL

\* routeToPeer falling back to the default peer whatever its state.
routeToPeerAnyDefault(to) ==
  LET matched == routeLoop(1, to)
  IN IF matched # NULL THEN matched ELSE defaultPeer

\* routeToPeer(to)
routeToPeer(to) ==
  LET matched == routeLoop(1, to)
  IN IF matched # NULL THEN matched ELSE defaultRoute

\* No routeToPeer call yet.
NoRoute ==
  [to |-> <<>>, peer |-> NULL,
   read |-> [p \in Peers |-> [isBound |-> FALSE, session |-> FALSE]]]

\* --------------------------------------------------------- deliver_sm path
\* No 'pdu' listener invocation in this slot.
IdleHandler ==
  [pc |-> "idle", peer |-> NULL, conn |-> NULL, seq |-> NULL, attempt |-> 0,
   tries |-> <<>>, egress |-> "none", resps |-> <<>>]

\* The 'pdu' listener called with a deliver_sm: forwardToKamailio starts its
\* first attempt and the handler awaits it.
onDeliverSm(p, c, seq) ==
  [pc |-> "egress", peer |-> p, conn |-> c, seq |-> seq, attempt |-> 1,
   tries |-> <<>>, egress |-> "pending", resps |-> <<>>]

\* forwardToKamailio throwing on the first failed attempt.
forwardToKamailioNoRetry(H, ok) ==
  IF ok THEN [H EXCEPT !.egress = "ok", !.tries = Append(@, ok)]
  ELSE [H EXCEPT !.egress = "failed", !.tries = Append(@, ok)]

\* One iteration of forwardToKamailio's loop: axios.get resolves (return), or
\* it rejects and the loop retries after the delay or throws on the last one.
\* tries keeps the outcome of every attempt made.
forwardToKamailio(H, ok) ==
  IF ok THEN [H EXCEPT !.egress = "ok", !.tries = Append(@, ok)]
  ELSE IF H.attempt < retries
  THEN [H EXCEPT !.attempt = @ + 1, !.tries = Append(@, ok)]
  ELSE [H EXCEPT !.egress = "failed", !.tries = Append(@, ok)]

\* session.deliver_sm_resp({ sequence_number }): command_status defaults to 0.
deliver_sm_resp(H) ==
  [conn |-> H.conn, sequence_number |-> H.seq, command_status |-> 0]

\* The handler with a catch branch that only logs.
afterForwardSilentCatch(H) ==
  IF H.egress = "ok"
  THEN [H EXCEPT !.resps = Append(@, deliver_sm_resp(H)), !.pc = "done"]
  ELSE IF H.egress = "failed"
  THEN [H EXCEPT !.pc = "done"]
  ELSE H

\* The handler with a catch branch that answers ESME_RSYSERR, as the SMPP
\* server's submit_sm handler does.
afterForwardNack(H) ==
  IF H.egress = "ok"
  THEN [H EXCEPT !.resps = Append(@, deliver_sm_resp(H)), !.pc = "done"]
  ELSE IF H.egress = "failed"
  THEN [H EXCEPT !.resps = Append(@, [deliver_sm_resp(H) EXCEPT !.command_status = 8]),
                 !.pc = "done"]
  ELSE H

\* The handler after its await: the try branch or the catch branch.
afterForward(H) ==
  IF H.egress = "ok"
  THEN [H EXCEPT !.resps = Append(@, deliver_sm_resp(H)), !.pc = "done"]
  ELSE IF H.egress = "failed"
  THEN [H EXCEPT !.resps = Append(@, deliver_sm_resp(H)), !.pc = "done"]
  ELSE H

\* Connections of peer p some handler still holds in its closure.
HeldByHandlers(p) ==
  {handlers[h].conn : h \in {g \in Handlers : handlers[g].pc = "egress"
                                               /\ handlers[g].peer = p}}

\* --------------------------------------------------------- /send_sms path
\* req.query.from and req.query.text: absent (or empty), or given.
Froms == {<<>>, <<1, 0, 0>>}
Texts == {<<>>, <<"hi">>}
\* req.query.to: absent, or one of the destinations.
Tos == {<<>>} \cup Dests

\* Strings are sequences of pieces; a template literal concatenates them.
Digit(n) == <<"0", "1", "2", "3", "4", "5", "6", "7", "8", "9">>[n + 1]

\* `${n}` for a non-negative integer n.
RECURSIVE Decimal(_)
Decimal(n) ==
  IF n < 10 THEN <<Digit(n)>> ELSE Decimal(n \div 10) \o <<Digit(n % 10)>>

\* message_id values of a submit_sm_resp: an id, the empty string, and the
\* placeholder some SMSCs send.
MessageIds == {<<"A1">>, <<"7", "f">>, <<>>, <<"msg_id_not_implemented">>}
\* command_status values of a submit_sm_resp.
SubmitStatuses == {0, 8, 88}
\* Date.now() at the time a submit_sm_resp is handled, as `${Date.now()}`.
Nows == {<<"1700000000000">>, <<"1700000000123">>}

\* A TON / NPI setting of a peer entry: <<>> when the entry does not have it.
AddrValues == {<<>>, <<0>>, <<1>>, <<5>>}
\* The four settings of one peer entry.
AddrConfigs ==
  {[source_addr_ton |-> a, source_addr_npi |-> <<1>>,
    dest_addr_ton |-> <<>>, dest_addr_npi |-> a] : a \in AddrValues}

\* value || 1: undefined and 0 are falsy.
OrOne(v) == IF v = <<>> \/ v[1] = 0 THEN 1 ELSE v[1]

\* The request slots (handler invocations in flight at once).
Requests == {1}

\* No request in this slot.
IdleRequest ==
  [pc |-> "idle", query |-> [from |-> <<>>, to |-> <<>>, text |-> <<>>],
   to |-> <<>>, elapsed |-> 0, sleeps |-> 0,
   boundAtCall |-> FALSE, seen |-> {}, wait |-> "none",
   routed |-> FALSE, peer |-> NULL, submits |-> <<>>, answer |-> <<>>,
   responses |-> <<>>]

\* res.status(status).send(body)
respond(R, status, body) ==
  [R EXCEPT !.pc = "done",
            !.responses = Append(@, [status |-> status, body |-> body])]

\* The peers the for loop of waitForBoundPeer counts.
BoundPeers == {p \in Peers : PeerBound(p)}

\* waitForBoundPeer deciding without a look at the peers.
waitForBoundPeerBlind(R) ==
  IF R.elapsed >= MaxPolls THEN [R EXCEPT !.wait = "false", !.pc = "waited"]
  ELSE [R EXCEPT !.wait = "true", !.seen = BoundPeers, !.pc = "waited"]

\* One turn of waitForBoundPeer's while loop, Date.now() - start being
\* R.elapsed: return false past the timeout, return true when a peer is
\* bound, sleep otherwise.
waitForBoundPeer(R) ==
  IF R.elapsed >= MaxPolls THEN [R EXCEPT !.wait = "false", !.pc = "waited"]
  ELSE IF BoundPeers # {}
  THEN [R EXCEPT !.wait = "true", !.seen = BoundPeers, !.pc = "waited"]
  ELSE [R EXCEPT !.wait = "sleeping", !.seen = {}, !.sleeps = @ + 1,
                 !.pc = "waiting"]

\* The submit_sm PDU the handler builds for peer p.
submit_sm(p, c, to) ==
  [peer |-> p, conn |-> c, destination_addr |-> to,
   source_addr_ton |-> OrOne(addrConf[p].source_addr_ton),
   source_addr_npi |-> OrOne(addrConf[p].source_addr_npi),
   dest_addr_ton |-> OrOne(addrConf[p].dest_addr_ton),
   dest_addr_npi |-> OrOne(addrConf[p].dest_addr_npi),
   registered_delivery |-> 1]

NoPeerAvailable == <<"No SMPP peer available">>
NoValidSession == <<"No valid SMPP session, retry later">>

\* The handler with the 503 of a missing route dropped: the default peer's
\* session is used.
sendSmsNoRouteCheck(R) ==
  IF R.wait = "false" THEN respond(R, 503, NoPeerAvailable)
  ELSE
    LET route == routeToPeer(R.to)
        peer == IF route # NULL THEN route ELSE Min(Peers)
        R1 == [R EXCEPT !.routed = TRUE, !.peer = route]
    IN IF PeerState(peer).session = NULL
       THEN respond(R1, 503, NoValidSession)
       ELSE [R1 EXCEPT !.pc = "submitted",
                       !.submits = Append(@, submit_sm(peer,
                                      PeerState(peer).session, R.to))]

\* The /send_sms handler after `await waitForBoundPeer()`, up to the call of
\* session.submit_sm.
sendSms(R) ==
  IF R.wait = "false" THEN respond(R, 503, NoPeerAvailable)
  ELSE
    LET peer == routeToPeer(R.to)
        R1 == [R EXCEPT !.routed = TRUE, !.peer = peer]
    IN IF peer = NULL THEN respond(R1, 503, NoPeerAvailable)
       ELSE IF PeerState(peer).session = NULL
       THEN respond(R1, 503, NoValidSession)
       ELSE [R1 EXCEPT !.pc = "submitted",
                       !.submits = Append(@, submit_sm(peer,
                                      PeerState(peer).session, R.to))]

\* The handler validating from and to only.
onSendSmsNoTextCheck(from, to, text) ==
  LET R == [IdleRequest EXCEPT !.query = [from |-> from, to |-> to, text |-> text]]
  IN IF from = <<>> \/ to = <<>>
     THEN respond(R, 400, <<"Missing required parameters: from, to, text">>)
     ELSE waitForBoundPeer([R EXCEPT !.to = to, !.boundAtCall = BoundPeers # {}])

\* The handler from its first line: validation, then the first turn of
\* waitForBoundPeer (an async function runs up to its first await at once).
\* query keeps req.query as it came.
onSendSms(from, to, text) ==
  LET R == [IdleRequest EXCEPT !.query = [from |-> from, to |-> to, text |-> text]]
  IN IF from = <<>> \/ to = <<>> \/ text = <<>>
     THEN respond(R, 400, <<"Missing required parameters: from, to, text">>)
     ELSE waitForBoundPeer([R EXCEPT !.to = to, !.boundAtCall = BoundPeers # {}])

\* The handler's "no valid session" branch on the pool entry of the routed
\* peer: the fields are reset and connectSMPPPeer(peer) is called.
noSessionReconnect(S, c) ==
  LET o == S.entry
      S1 == [S EXCEPT !.objs[o].isBound = FALSE, !.objs[o].isConnecting = FALSE]
  IN IF ConnectSkipped(S1) THEN S1 ELSE connectSMPPPeer(S1, c)

\* The submit_sm callback that takes whatever message_id the PDU has.
onSubmitRespAnyId(R, status, message_id, now) ==
  IF status = 0
  THEN respond(R, 200, <<"OK - message_id=">> \o message_id)
  ELSE respond(R, 500, <<"Error: SMPP submit_sm failed (">> \o Decimal(status)
                         \o <<")">>)

\* The submit_sm callback that submits again after a refusal.
onSubmitRespRetry(R, status, message_id, now) ==
  IF status = 0
  THEN respond(R, 200, <<"OK - message_id=">> \o message_id)
  ELSE [R EXCEPT !.submits = Append(@, R.submits[1])]

\* The submit_sm callback, called with the submit_sm_resp.
onSubmitResp(R, status, message_id, now) ==
  IF status = 0
  THEN LET messageId ==
             IF message_id # <<>> /\ message_id # <<"msg_id_not_implemented">>
             THEN message_id
             ELSE <<"app-">> \o now
       IN respond(R, 200, <<"OK - message_id=">> \o messageId)
  ELSE respond(R, 500, <<"Error: SMPP submit_sm failed (">> \o Decimal(status)
                         \o <<")">>)

\* Connections of peer p a pending submit_sm callback still waits on.
HeldByRequests(p) ==
  {requests[r].submits[1].conn :
     r \in {q \in Requests : requests[q].pc = "submitted"
                               /\ requests[q].submits[1].peer = p}}

\* ---------------------------------------------------- local SMPP server
\* The connections the local SMPP server has accepted.
Sessions == {1}

\* smppServerConf.auth: the configured credential pairs.
Auth ==
  {[system_id |-> "kamailio", password |-> "secret"],
   [system_id |-> "esme2", password |-> "pw2"]}
\* system_id and password values of the bind PDUs clients send.
SystemIds == {"kamailio", "esme2", "bad"}
Passwords == {"secret", "pw2"}
BindCommands == {"bind_transmitter", "bind_receiver", "bind_transceiver"}

\* No bind PDU received yet.
NoBind ==
  [command |-> "none", system_id |-> "", password |-> "", resp |-> <<>>,
   closed |-> FALSE]

\* No submit_sm handler running on the session.
IdleSubmit ==
  [pc |-> "idle", boundAtRecv |-> FALSE, attempt |-> 0, tries |-> <<>>,
   egress |-> "none", resps |-> <<>>]

\* No connection in this slot.
NoServerSession ==
  [state |-> "none", bound |-> "UNBOUND", lastBind |-> NoBind,
   sub |-> IdleSubmit, unbind |-> [received |-> FALSE, resp |-> <<>>]]

\* smppServer.on('session'): an accepted connection with its listeners. The
\* code keeps no bind state; bound follows the binds the server has accepted.
NewServerSession == [NoServerSession EXCEPT !.state = "open"]

\* smppServerConf.auth.some(cred => ...)
isAuthenticated(system_id, password) ==
  \E cred \in Auth : cred.system_id = system_id /\ cred.password = password

\* The BOUND_* state a client is in after the server accepted its bind.
BoundState(command) ==
  IF command = "bind_transmitter" THEN "BOUND_TX"
  ELSE IF command = "bind_receiver" THEN "BOUND_RX"
  ELSE "BOUND_TRX"

\* A bind PDU arrives on the session: the 'bind_transceiver' and the
\* 'bind_transmitter' listener (the same body); no other bind command has
\* a listener.
onServerBind(S, command, system_id, password) ==
  LET bind == [command |-> command, system_id |-> system_id,
               password |-> password, resp |-> <<>>, closed |-> FALSE]
  IN IF command \notin {"bind_transceiver", "bind_transmitter"}
     THEN [S EXCEPT !.lastBind = bind]
     ELSE IF isAuthenticated(system_id, password)
     THEN [S EXCEPT !.lastBind =
                      [bind EXCEPT !.resp = <<[command_status |-> 0,
                                               system_id |-> "SMPP-GATEWAY"]>>],
                    !.bound = BoundState(command)]
     ELSE [S EXCEPT !.lastBind =
                      [bind EXCEPT !.resp = <<[command_status |-> ESME_RBINDFAIL,
                                               system_id |-> ""]>>,
                                   !.closed = TRUE],
                    !.state = "closing"]

\* An unbind PDU arrives on the session: the server has no 'unbind' listener,
\* so nothing is sent and session.close() is not called.
onServerUnbind(S) == [S EXCEPT !.unbind.received = TRUE]

\* The 'submit_sm' listener up to its await: forwardToKamailio starts its
\* first attempt whatever the binds on the session were.
onServerSubmitSm(S) ==
  [S EXCEPT !.sub =
     [pc |-> "egress",
      boundAtRecv |-> S.bound \in {"BOUND_TX", "BOUND_TRX"},
      attempt |-> 1, tries |-> <<>>, egress |-> "pending", resps |-> <<>>]]

\* The 'submit_sm' listener with the catch branch of the deliver_sm listener:
\* a plain response after a failed egress.
afterServerForwardAck(H, now) ==
  IF H.egress \in {"ok", "failed"}
  THEN [H EXCEPT !.resps = Append(@, [command |-> "submit_sm_resp",
                                      command_status |-> 0,
                                      message_id |-> <<"msg-">> \o now]),
                 !.pc = "done"]
  ELSE H

\* The 'submit_sm' listener after its await: the try or the catch branch.
afterServerForward(H, now) ==
  IF H.egress = "ok"
  THEN [H EXCEPT !.resps = Append(@, [command |-> "submit_sm_resp",
                                      command_status |-> 0,
                                      message_id |-> <<"msg-">> \o now]),
                 !.pc = "done"]
  ELSE IF H.egress = "failed"
  THEN [H EXCEPT !.resps = Append(@, [command |-> "submit_sm_resp",
                                      command_status |-> ESME_RSYSERR,
                                      message_id |-> <<>>]),
                 !.pc = "done"]
  ELSE H

\* ------------------------------------------- single-peer bridge (app.js)
\* A connection of the single-peer bridge that does not exist.
NoSingleConn == [state |-> "closed", dying |-> FALSE, pduListeners |-> 0]

\* No 'pdu' listener invocation running.
IdleSingleHandler ==
  [pc |-> "idle", conn |-> NULL, seq |-> NULL, egress |-> "none", resps |-> <<>>]

\* createSMPPSession() of app.js, making connection c: the session the global
\* names is closed and the global is set to the new one.
createSMPPSessionSingle(B, c) ==
  LET old == B.smppSession
      closed == IF old # NULL /\ B.conns[old].state # "closed"
                THEN [B.conns EXCEPT ![old].dying = TRUE]
                ELSE B.conns
  IN [B EXCEPT !.conns = [closed EXCEPT ![c] = [NoSingleConn EXCEPT !.state = "connecting"]],
               !.isBound = IF old # NULL THEN FALSE ELSE @,
               !.smppSession = c]

\* The guard of connectSMPP: "already connecting or bound".
ConnectSMPPSkipped(B) ==
  \/ B.isConnecting
  \/ /\ B.smppSession # NULL
     /\ B.conns[B.smppSession].state \in {"binding", "bound", "rejected"}
     /\ B.isBound

\* connectSMPP() past its guard.
connectSMPP(B, c) == createSMPPSessionSingle([B EXCEPT !.isConnecting = TRUE], c)

\* scheduleReconnect() of app.js: one global timer, cleared before it is set.
scheduleReconnectSingle(B) == [B EXCEPT !.reconnectTimeout = TRUE]

\* The bind_transceiver callback of connection c. setupPDUListener() attaches
\* the listener to the session the global names.
onBindRespSingle(B, c, status) ==
  LET B1 == [B EXCEPT !.isConnecting = FALSE]
  IN IF status = 0
     THEN [B1 EXCEPT !.isBound = TRUE,
                     !.conns[c].state = "bound",
                     !.conns[B.smppSession].pduListeners = 1]
     ELSE scheduleReconnectSingle(
            [B1 EXCEPT !.isBound = FALSE, !.conns[c].state = "rejected"])

\* The 'close' and the 'error' handler of app.js (the same body).
onLostSingle(B) ==
  scheduleReconnectSingle([B EXCEPT !.isBound = FALSE, !.isConnecting = FALSE])

\* The 'pdu' listener of app.js called with a deliver_sm on connection c:
\* forwardToKamailio (one attempt) is awaited.
onDeliverSmSingle(c, seq) ==
  [pc |-> "egress", conn |-> c, seq |-> seq, egress |-> "pending",
   resps |-> <<>>]

\* The listener after its await: try and catch both call
\* smppSession.deliver_sm_resp, on the session the global names by then.
afterForwardSingle(B, ok) ==
  [B EXCEPT !.handler.egress = IF ok THEN "ok" ELSE "failed",
            !.handler.pc = "done",
            !.handler.resps =
               Append(@, [conn |-> B.smppSession,
                          sequence_number |-> B.handler.seq,
                          command_status |-> 0])]

\* Slots of the single-peer bridge no connection and no handler uses.
FreeSingleSlots(B) ==
  {c \in Conns :
     /\ B.conns[c].state = "closed"
     /\ ~(B.handler.pc = "egress" /\ B.handler.conn = c)}

\* app.js at startup: the globals, and the first connectSMPP().
InitSingle ==
  connectSMPP([smppSession |-> NULL, isConnecting |-> FALSE, isBound |-> FALSE,
               reconnectTimeout |-> FALSE,
               conns |-> [c \in Conns |-> NoSingleConn],
               handler |-> IdleSingleHandler], 1)

\* ------------------------------------------------------------ environment
\* Connections alive in the whole process, and those a pending timer will open.
Load ==
  Cardinality({pc \in Peers \X Conns : pool[pc[1]].conns[pc[2]].state # "closed"})
    + Cardinality({p \in Peers : pool[p].timers # {}})

\* A peer may leave a connection open after refusing its bind (the bridge does
\* not close it) only while the process holds fewer than MaxConns connections.
MayReject == Load < MaxConns

\* --------------------------------------------------------------- actions
\* The startup loop: every peer gets an entry and a first connection.
InitPeer ==
  LET S0 == [entry |-> 0,
             objs |-> [o \in Objs |-> NewPeerState(NULL)],
             conns |-> [c \in Conns |-> NoConn],
             timers |-> {},
             current |-> NULL]
  IN connectSMPPPeer(S0, 1)

\* The configuration of the routing example: P1 route_regex ^49, P2 default.
\* The peer entries of the example have no TON / NPI settings.
ExampleAddr ==
  [p \in Peers |->
     [source_addr_ton |-> <<>>, source_addr_npi |-> <<>>,
      dest_addr_ton |-> <<>>, dest_addr_npi |-> <<>>]]

ExampleConfig ==
  [p \in Peers |->
     IF p = 1 THEN [route_regex |-> [kind |-> "prefix", prefix |-> <<4, 9>>],
                    default |-> FALSE]
     ELSE [route_regex |-> NoRegex, default |-> TRUE]]

InitRest ==
  /\ pool = [p \in Peers |-> InitPeer]
  /\ lastRoute = NoRoute
  /\ handlers = [h \in Handlers |-> IdleHandler]
  /\ requests = [r \in Requests |-> IdleRequest]
  /\ server = [s \in Sessions |-> NoServerSession]
  /\ single = InitSingle

Init == smppPeers = ExampleConfig /\ addrConf = ExampleAddr /\ InitRest

InitRoute ==
  smppPeers \in [Peers -> PeerConfigs] /\ addrConf = ExampleAddr /\ InitRest

\* Startup with the example's routing and any TON / NPI settings.
InitHttp ==
  smppPeers = ExampleConfig /\ addrConf \in [Peers -> AddrConfigs] /\ InitRest

\* 'connect' on connection c of peer p: bind_transceiver is sent.
TcpConnect(p, c) ==
  /\ pool[p].conns[c].state = "connecting"
  /\ ~pool[p].conns[c].dying
  /\ pool' = [pool EXCEPT ![p].conns[c].state = "binding"]
  /\ UNCHANGED <<smppPeers, lastRoute, handlers, ingressVars>>

\* bind_transceiver_resp arrives on connection c of peer p.
BindResp(p, c, status) ==
  /\ pool[p].conns[c].state = "binding"
  /\ ~pool[p].conns[c].dying
  /\ status # 0 => TimerAvail(pool[p]) /\ MayReject
  /\ \E S1 \in {onBindResp(pool[p], c, status)} :
       pool' = [pool EXCEPT ![p] = Normalize(S1)]
  /\ UNCHANGED <<smppPeers, lastRoute, handlers, ingressVars>>

\* 'error' on connection c of peer p. The socket is destroyed with the error
\* and emits 'error' and then 'close' in the same tick, so the error handler
\* and the close handler run back to back.
ConnError(p, c) ==
  /\ pool[p].conns[c].state # "closed"
  /\ ~pool[p].conns[c].dying
  /\ TimerAvail(pool[p])
  /\ \E S1 \in {onLost(pool[p], c)} :
       \E S2 \in {[onLost(S1, c) EXCEPT !.conns[c] = NoConn]} :
         pool' = [pool EXCEPT ![p] = Normalize(S2)]
  /\ UNCHANGED <<smppPeers, lastRoute, handlers, ingressVars>>

\* 'close' with a handler that keeps isBound in a variable all peers share
\* (as the single-peer bridge does).
ConnCloseSharedFlag(p, c) ==
  /\ pool[p].conns[c].state # "closed"
  /\ TimerAvail(pool[p])
  /\ \E S1 \in {[onLost(pool[p], c) EXCEPT !.conns[c] = NoConn]} :
       pool' = [q \in Peers |->
                  IF q = p THEN Normalize(S1)
                  ELSE [pool[q] EXCEPT !.objs[pool[q].entry].isBound = FALSE]]
  /\ UNCHANGED <<smppPeers, lastRoute, handlers, ingressVars>>

\* 'close' on connection c of peer p.
ConnClose(p, c) ==
  /\ pool[p].conns[c].state # "closed"
  /\ TimerAvail(pool[p])
  /\ \E S1 \in {[onLost(pool[p], c) EXCEPT !.conns[c] = NoConn]} :
       pool' = [pool EXCEPT ![p] = Normalize(S1)]
  /\ UNCHANGED <<smppPeers, lastRoute, handlers, ingressVars>>

\* The reconnect timer t of peer p fires: its callback clears the field and
\* calls connectSMPPPeer.
TimerFire(p, t) ==
  /\ t \in pool[p].timers
  /\ \E S0 \in {[pool[p] EXCEPT !.timers = @ \ {t},
                                   !.objs[t.obj].reconnectTimeout = NULL]} :
       IF ConnectSkipped(S0)
       THEN pool' = [pool EXCEPT ![p] = Normalize(S0)]
       ELSE \E free \in {FreeSlots(S0, HeldByHandlers(p) \cup HeldByRequests(p))} :
              /\ free # {}
              /\ \E S1 \in {connectSMPPPeer(S0, Min(free))} :
                   pool' = [pool EXCEPT ![p] = Normalize(S1)]
  /\ UNCHANGED <<smppPeers, lastRoute, handlers, ingressVars>>

\* routeToPeer(to) is called; what it read of each peer is kept with its result.
RouteToPeer(to) ==
  /\ lastRoute' =
       [to |-> to, peer |-> routeToPeer(to),
        read |-> [p \in Peers |-> [isBound |-> PeerState(p).isBound,
                                   session |-> PeerState(p).session # NULL]]]
  /\ UNCHANGED <<smppPeers, pool, handlers, ingressVars>>

\* deliver_sm with sequence number seq arrives on connection c of peer p,
\* which has its 'pdu' listener (attached on bind success).
DeliverSm(h, p, c, seq) ==
  /\ handlers[h].pc \in {"idle", "done"}
  /\ pool[p].conns[c].state = "bound"
  /\ ~pool[p].conns[c].dying
  /\ pool[p].conns[c].pduListeners > 0
  /\ handlers' = [handlers EXCEPT ![h] = onDeliverSm(p, c, seq)]
  /\ UNCHANGED <<smppPeers, pool, lastRoute, ingressVars>>

\* The HTTP attempt of handler h ends (ok or not); when forwardToKamailio
\* returns or throws, the handler goes on in the same turn of the event loop.
EgressAttempt(h, ok) ==
  /\ handlers[h].pc = "egress"
  /\ handlers' = [handlers EXCEPT ![h] = afterForward(forwardToKamailio(@, ok))]
  /\ UNCHANGED <<smppPeers, pool, lastRoute, ingressVars>>

\* GET /send_sms arrives: the handler runs up to its first sleep, its call of
\* session.submit_sm, or its response.
HttpSendSms(r, from, to, text) ==
  /\ requests[r].pc \in {"idle", "done"}
  /\ \E R1 \in {onSendSms(from, to, text)} :
       \E R2 \in {IF R1.pc = "waited" THEN sendSms(R1) ELSE R1} :
         /\ requests' = [requests EXCEPT ![r] = R2]
         /\ IF R2.pc = "done" /\ R2.responses[1].body = NoValidSession
            THEN \E free \in {FreeSlots(pool[R2.peer], HeldByRequests(R2.peer))} :
                   /\ free # {}
                   /\ pool' = [pool EXCEPT ![R2.peer] =
                                 Normalize(noSessionReconnect(@, Min(free)))]
            ELSE pool' = pool
  /\ UNCHANGED <<smppPeers, lastRoute, handlers, addrConf, server, single>>

\* The sleep of waitForBoundPeer ends, d poll intervals after it began: the
\* next turn of the loop runs, and the handler goes on when it returns.
WaitWake(r, d) ==
  /\ requests[r].pc = "waiting"
  /\ \E R0 \in {[requests[r] EXCEPT !.elapsed = Min({@ + d, MaxPolls})]} :
       \E R1 \in {waitForBoundPeer(R0)} :
         \E R2 \in {IF R1.pc = "waited" THEN sendSms(R1) ELSE R1} :
           /\ requests' = [requests EXCEPT ![r] = R2]
           /\ IF R2.pc = "done" /\ R2.responses[1].body = NoValidSession
              THEN \E free \in {FreeSlots(pool[R2.peer], HeldByRequests(R2.peer))} :
                     /\ free # {}
                     /\ pool' = [pool EXCEPT ![R2.peer] =
                                   Normalize(noSessionReconnect(@, Min(free)))]
              ELSE pool' = pool
  /\ UNCHANGED <<smppPeers, lastRoute, handlers, addrConf, server, single>>

\* submit_sm_resp for the submit_sm of request r arrives on the connection it
\* was sent on: the callback runs.
SubmitResp(r, status, message_id, now) ==
  /\ requests[r].pc = "submitted"
  /\ LET pdu == requests[r].submits[1]
     IN /\ pool[pdu.peer].conns[pdu.conn].state = "bound"
        /\ ~pool[pdu.peer].conns[pdu.conn].dying
  /\ \E R1 \in {[requests[r] EXCEPT
                    !.answer = <<[command_status |-> status,
                                  message_id |-> message_id]>>]} :
       requests' = [requests EXCEPT ![r] = onSubmitResp(R1, status, message_id, now)]
  /\ UNCHANGED <<smppPeers, pool, lastRoute, handlers, addrConf, server, single>>

\* The local SMPP server accepts a connection.
ServerAccept(s) ==
  /\ server[s].state \in {"none", "closed"}
  /\ server[s].sub.pc # "egress"
  /\ server' = [server EXCEPT ![s] = NewServerSession]
  /\ UNCHANGED <<smppPeers, pool, lastRoute, handlers, addrConf, requests, single>>

\* A bind PDU arrives on session s.
ServerBind(s, command, system_id, password) ==
  /\ server[s].state = "open"
  /\ server' = [server EXCEPT ![s] = onServerBind(@, command, system_id, password)]
  /\ UNCHANGED <<smppPeers, pool, lastRoute, handlers, addrConf, requests, single>>

\* An unbind PDU arrives on session s.
ServerUnbind(s) ==
  /\ server[s].state = "open"
  /\ server' = [server EXCEPT ![s] = onServerUnbind(@)]
  /\ UNCHANGED <<smppPeers, pool, lastRoute, handlers, addrConf, requests, single>>

\* A submit_sm PDU arrives on session s.
ServerSubmitSm(s) ==
  /\ server[s].state = "open"
  /\ server[s].sub.pc # "egress"
  /\ server' = [server EXCEPT ![s] = onServerSubmitSm(@)]
  /\ UNCHANGED <<smppPeers, pool, lastRoute, handlers, addrConf, requests, single>>

\* The HTTP attempt of the submit_sm handler of session s ends (ok or not);
\* when forwardToKamailio returns or throws, the handler answers.
ServerEgressAttempt(s, ok, now) ==
  /\ server[s].sub.pc = "egress"
  /\ server' = [server EXCEPT ![s].sub =
                  afterServerForward(forwardToKamailio(@, ok), now)]
  /\ UNCHANGED <<smppPeers, pool, lastRoute, handlers, addrConf, requests, single>>

\* Session s closes (the client hangs up, the socket fails, or the close the
\* server asked for completes): the 'error' and 'close' listeners only log.
ServerClose(s) ==
  /\ server[s].state \in {"open", "closing"}
  /\ server' = [server EXCEPT ![s].state = "closed"]
  /\ UNCHANGED <<smppPeers, pool, lastRoute, handlers, addrConf, requests, single>>

\* Single-peer bridge: 'connect' on connection c, bind_transceiver is sent.
SingleTcpConnect(c) ==
  /\ single.conns[c].state = "connecting"
  /\ ~single.conns[c].dying
  /\ single' = [single EXCEPT !.conns[c].state = "binding"]
  /\ UNCHANGED <<smppPeers, pool, lastRoute, handlers, addrConf, requests, server>>

\* Single-peer bridge: bind_transceiver_resp arrives on connection c.
SingleBindResp(c, status) ==
  /\ single.conns[c].state = "binding"
  /\ ~single.conns[c].dying
  /\ single' = onBindRespSingle(single, c, status)
  /\ UNCHANGED <<smppPeers, pool, lastRoute, handlers, addrConf, requests, server>>

\* Single-peer bridge: connection c closes, with or without an error before
\* (the two handlers have the same body and run back to back).
SingleConnClose(c) ==
  /\ single.conns[c].state # "closed"
  /\ single' = [onLostSingle(single) EXCEPT !.conns[c] = NoSingleConn]
  /\ UNCHANGED <<smppPeers, pool, lastRoute, handlers, addrConf, requests, server>>

\* Single-peer bridge: the reconnect timer fires.
SingleTimerFire ==
  /\ single.reconnectTimeout
  /\ \E B0 \in {[single EXCEPT !.reconnectTimeout = FALSE]} :
       IF ConnectSMPPSkipped(B0) THEN single' = B0
       ELSE /\ FreeSingleSlots(B0) # {}
            /\ single' = connectSMPP(B0, Min(FreeSingleSlots(B0)))
  /\ UNCHANGED <<smppPeers, pool, lastRoute, handlers, addrConf, requests, server>>

\* Single-peer bridge: deliver_sm arrives on connection c, which has the
\* 'pdu' listener.
SingleDeliverSm(c, seq) ==
  /\ single.handler.pc \in {"idle", "done"}
  /\ single.conns[c].state = "bound"
  /\ ~single.conns[c].dying
  /\ single.conns[c].pduListeners > 0
  /\ single' = [single EXCEPT !.handler = onDeliverSmSingle(c, seq)]
  /\ UNCHANGED <<smppPeers, pool, lastRoute, handlers, addrConf, requests, server>>

\* Single-peer bridge: the HTTP call of the handler ends and the handler
\* answers.
SingleEgressDone(ok) ==
  /\ single.handler.pc = "egress"
  /\ single' = afterForwardSingle(single, ok)
  /\ UNCHANGED <<smppPeers, pool, lastRoute, handlers, addrConf, requests, server>>

\* ---------------------------------------------------------- specifications
\* Connection events against peers that accept binds.
Lifecycle ==
  \/ \E p \in Peers, c \in Conns : TcpConnect(p, c)
  \/ \E p \in Peers, c \in Conns : BindResp(p, c, 0)
  \/ \E p \in Peers, c \in Conns : ConnError(p, c)
  \/ \E p \in Peers, c \in Conns : ConnClose(p, c)
  \/ \E p \in Peers : \E t \in pool[p].timers : TimerFire(p, t)

Next ==
  \/ \E p \in Peers, c \in Conns : TcpConnect(p, c)
  \/ \E p \in Peers, c \in Conns, status \in BindStatuses : BindResp(p, c, status)
  \/ \E p \in Peers, c \in Conns : ConnError(p, c)
  \/ \E p \in Peers, c \in Conns : ConnClose(p, c)
  \/ \E p \in Peers : \E t \in pool[p].timers : TimerFire(p, t)

Spec == Init /\ [][Next]_vars

\* setTimeout: an armed timer that is not cleared fires.
SpecLive ==
  Spec /\ \A p \in Peers : WF_vars(\E t \in pool[p].timers : TimerFire(p, t))

NextRoute ==
  \/ Lifecycle
  \/ \E to \in Dests : RouteToPeer(to)

SpecRoute == InitRoute /\ [][NextRoute]_vars

NextDeliver ==
  \/ Lifecycle
  \/ \E h \in Handlers, p \in Senders, c \in Conns, seq \in Seqs : DeliverSm(h, p, c, seq)
  \/ \E h \in Handlers, ok \in BOOLEAN : EgressAttempt(h, ok)

SpecDeliver == Init /\ [][NextDeliver]_vars

\* The single-peer bridge against an SMSC that accepts or refuses binds,
\* drops connections and sends deliver_sm.
NextSingle ==
  \/ \E c \in Conns : SingleTcpConnect(c)
  \/ \E c \in Conns, status \in BindStatuses : SingleBindResp(c, status)
  \/ \E c \in Conns : SingleConnClose(c)
  \/ SingleTimerFire
  \/ \E c \in Conns, seq \in Seqs : SingleDeliverSm(c, seq)
  \/ \E ok \in BOOLEAN : SingleEgressDone(ok)

SpecSingle == Init /\ [][NextSingle]_vars

\* The local SMPP server against clients that bind, submit and hang up.
NextServer ==
  \/ \E s \in Sessions : ServerAccept(s)
  \/ \E s \in Sessions, command \in BindCommands, system_id \in SystemIds,
        password \in Passwords : ServerBind(s, command, system_id, password)
  \/ \E s \in Sessions : ServerSubmitSm(s)
  \/ \E s \in Sessions : ServerUnbind(s)
  \/ \E s \in Sessions, ok \in BOOLEAN, now \in Nows : ServerEgressAttempt(s, ok, now)
  \/ \E s \in Sessions : ServerClose(s)

SpecServer == Init /\ [][NextServer]_vars

\* The pool, and GET /send_sms requests against peers that answer submit_sm
\* or stay silent.
NextHttp ==
  \/ Lifecycle
  \/ \E r \in Requests, from \in Froms, to \in Tos, text \in Texts :
       HttpSendSms(r, from, to, text)
  \/ \E r \in Requests, d \in {1, 2} : WaitWake(r, d)
  \/ \E r \in Requests, status \in SubmitStatuses, message_id \in MessageIds,
        now \in Nows : SubmitResp(r, status, message_id, now)

SpecHttp == InitHttp /\ [][NextHttp]_vars

\* setTimeout: the reconnect timers and the sleep of waitForBoundPeer end.
SpecHttpLive ==
  /\ Init /\ [][NextHttp]_vars
  /\ \A p \in Peers : WF_vars(\E t \in pool[p].timers : TimerFire(p, t))
  /\ \A r \in Requests : WF_vars(\E d \in {1, 2} : WaitWake(r, d))

\* ------------------------------------------------------------------ claims
\* C1: every deliver_sm handler sends no deliver_sm_resp while forwardToKamailio
\* is pending and, once the call has returned or thrown, has sent exactly one:
\* on the session the PDU came in on and with the PDU's sequence number.
C1_OneRespAfterEgress ==
  \A h \in Handlers :
    /\ handlers[h].pc = "egress" =>
         handlers[h].egress = "pending" /\ handlers[h].resps = <<>>
    /\ handlers[h].pc = "done" =>
         /\ handlers[h].egress \in {"ok", "failed"}
         /\ Len(handlers[h].resps) = 1
         /\ handlers[h].resps[1].sequence_number = handlers[h].seq
         /\ handlers[h].resps[1].conn = handlers[h].conn

\* A handler that answered after one failed and one successful attempt.
C1_Witness ==
  \E h \in Handlers :
    /\ handlers[h].pc = "done"
    /\ handlers[h].egress = "ok"
    /\ handlers[h].attempt = 2
    /\ Len(handlers[h].resps) = 1

\* C2: a handler whose egress failed on all attempts has answered with one
\* deliver_sm_resp of command_status 0 and the PDU's sequence number, and no
\* step of a handler changes any peer's entry, objects, connections or timers.
C2_FailedEgressAcked ==
  \A h \in Handlers :
    (handlers[h].pc = "done" /\ handlers[h].egress = "failed") =>
      handlers[h].resps =
        <<[conn |-> handlers[h].conn, sequence_number |-> handlers[h].seq,
           command_status |-> 0]>>

\* C2: the answer after a failed egress (above) holds in every state, and a
\* handler's steps, the failing ones included, leave every peer's state alone.
C2_AckOnEgressFailure ==
  /\ []C2_FailedEgressAcked
  /\ [][handlers' # handlers => pool' = pool]_vars

\* A handler that answered after all its attempts failed, on a peer that is
\* still bound.
C2_Witness ==
  \E h \in Handlers :
    /\ handlers[h].pc = "done"
    /\ handlers[h].egress = "failed"
    /\ handlers[h].attempt = retries
    /\ PeerBound(handlers[h].peer)

\* The connections of peer p that are CONNECTING, BINDING or BOUND.
InProgress(p) ==
  {c \in Conns : /\ pool[p].conns[c].state \in {"connecting", "binding", "bound"}
                 /\ ~pool[p].conns[c].dying}

\* C3: at most one connection of a peer is connecting, binding or bound:
\* connectSMPPPeer opens no connection while the peer has such a connection.
C3_OneBindInFlight ==
  \A p \in Peers : Cardinality(InProgress(p)) <= 1

\* C4: a peer whose entry says isBound holds a session, and the last bind_resp
\* received on that session had command_status 0.
C4_BoundHasSession ==
  \A p \in Peers :
    PeerState(p).isBound =>
      /\ PeerState(p).session # NULL
      /\ LET resps == pool[p].conns[PeerState(p).session].bindResps
         IN resps # <<>> /\ resps[Len(resps)] = 0

\* A peer bound on one connection while a connection whose bind it refused
\* is still open.
C4_Witness ==
  \E p \in Peers :
    /\ PeerState(p).isBound
    /\ \E c \in Conns : pool[p].conns[c].state = "rejected"

\* What the last routeToPeer call read: peer q was bound with a session.
ReadBound(q) == lastRoute.read[q].isBound /\ lastRoute.read[q].session

\* The peers the last call read as bound whose route_regex compiles and
\* matches the destination.
ReadMatching ==
  {q \in Peers :
     /\ ReadBound(q)
     /\ smppPeers[q].route_regex.kind = "prefix"
     /\ RegexTest(smppPeers[q].route_regex, lastRoute.to)}

Routed == lastRoute.to # <<>>

\* C5: the peer routeToPeer returns was bound with a session when it was read.
C5_RoutesToBound ==
  (Routed /\ lastRoute.peer # NULL) => ReadBound(lastRoute.peer)

\* A peer returned while the other peer was not bound.
C5_Witness ==
  /\ Routed
  /\ lastRoute.peer # NULL
  /\ \E q \in Peers : ~ReadBound(q)

\* C6: when some bound peer's route_regex matches, routeToPeer returns the
\* first such peer in configuration order.
C6_FirstMatchWins ==
  (Routed /\ ReadMatching # {}) => lastRoute.peer = Min(ReadMatching)

\* The second peer returned for a destination that the first peer's regex
\* matches too, the first peer not being bound.
C6_Witness ==
  /\ Routed
  /\ lastRoute.peer = 2
  /\ ReadMatching = {2}
  /\ smppPeers[1].route_regex.kind = "prefix"
  /\ RegexTest(smppPeers[1].route_regex, lastRoute.to)
  /\ ~ReadBound(1)

\* C7 as stated: the default peer is returned exactly when no bound peer's
\* route_regex matches and the default peer exists and is bound, and NULL is
\* returned when nothing matches and the default peer is absent or not bound.
C7_DefaultIffNoMatch ==
  Routed =>
    /\ (lastRoute.peer # NULL /\ lastRoute.peer = defaultPeer)
         <=> (ReadMatching = {} /\ defaultPeer # NULL /\ ReadBound(defaultPeer))
    /\ (ReadMatching = {} /\ (defaultPeer = NULL \/ ~ReadBound(defaultPeer)))
         => lastRoute.peer = NULL

\* C7 amended: the default peer is returned exactly when it exists, is bound,
\* and either no bound peer's route_regex matches or the default peer is itself
\* the first bound peer whose route_regex matches; NULL is returned when nothing
\* matches and the default peer is absent or not bound.
C7_DefaultFallback ==
  Routed =>
    /\ (lastRoute.peer # NULL /\ lastRoute.peer = defaultPeer)
         <=> /\ defaultPeer # NULL
             /\ ReadBound(defaultPeer)
             /\ ReadMatching = {} \/ Min(ReadMatching) = defaultPeer
    /\ (ReadMatching = {} /\ (defaultPeer = NULL \/ ~ReadBound(defaultPeer)))
         => lastRoute.peer = NULL

\* The default peer returned as the fallback, and NULL returned although a
\* peer whose regex does not match is bound: one of the two, per call.
C7_Witness ==
  /\ Routed
  /\ ReadMatching = {}
  /\ \E q \in Peers : ReadBound(q) /\ smppPeers[q].route_regex.kind = "prefix"
  /\ \/ lastRoute.peer # NULL /\ lastRoute.peer = defaultPeer
     \/ lastRoute.peer = NULL /\ defaultPeer # NULL

\* C8: a peer whose route_regex does not compile is returned only as the
\* default peer and only when no bound peer's regex matches; the call returns
\* what it would return were that regex absent; and the call changes no
\* peer's state.
C8_BadRegexSkipped ==
  Routed =>
    /\ (lastRoute.peer # NULL
          /\ smppPeers[lastRoute.peer].route_regex.kind = "invalid")
         => /\ lastRoute.peer = defaultPeer
            /\ ReadBound(lastRoute.peer)
            /\ ReadMatching = {}
    /\ lastRoute.peer =
         IF ReadMatching # {} THEN Min(ReadMatching)
         ELSE IF defaultPeer # NULL /\ ReadBound(defaultPeer) THEN defaultPeer
         ELSE NULL

\* C8: the routing result (above) holds after every call, and a call leaves
\* the bound state of every peer, the one with the bad regex included, alone.
C8_InvalidRegex ==
  /\ []C8_BadRegexSkipped
  /\ [][lastRoute' # lastRoute => pool' = pool]_vars

\* A bound default peer whose route_regex does not compile is returned.
C8_Witness ==
  /\ Routed
  /\ lastRoute.peer # NULL
  /\ smppPeers[lastRoute.peer].route_regex.kind = "invalid"
  /\ smppPeers[lastRoute.peer].default

\* C9: a peer has at most one pending reconnect timer, and it is the one its
\* entry's reconnectTimeout names.
C9_OneTimer ==
  \A p \in Peers :
    /\ Cardinality(pool[p].timers) <= 1
    /\ \A t \in pool[p].timers : pool[p].objs[t.obj].reconnectTimeout = t.id

\* A timer armed again by the late close of a refused connection, while the
\* connection the first timer opened is still connecting.
C9_Witness ==
  \E p \in Peers :
    /\ pool[p].timers # {}
    /\ \E c \in Conns : pool[p].conns[c].state = "connecting"

\* A connection of peer p is lost (close, error) or has its bind refused.
LostStep(p) ==
  \E c \in Conns :
    \/ pool[p].conns[c].state # "closed" /\ pool'[p].conns[c].state = "closed"
    \/ pool[p].conns[c].state = "binding" /\ pool'[p].conns[c].state = "rejected"

\* C10: right after a connection of a peer is lost or its bind is refused the
\* peer is not bound and a reconnect timer is pending; and a pending timer
\* leads to connectSMPPPeer having run: no timer is pending and the peer has
\* a connection that is connecting, binding or bound.
C10_LossArmsTimer ==
  [][\A p \in Peers :
       LostStep(p) => (~PeerBound(p))' /\ pool'[p].timers # {}]_vars

C10_TimerReconnects ==
  \A p \in Peers :
    (pool[p].timers # {}) ~> (pool[p].timers = {} /\ InProgress(p) # {})

\* C10: both parts: the loss arms the timer, and the armed timer reconnects.
C10_ReconnectAfterLoss == C10_LossArmsTimer /\ C10_TimerReconnects

\* A peer whose bind was refused: not bound, its timer pending.
C10_Witness ==
  \E p \in Peers :
    /\ ~PeerBound(p)
    /\ pool[p].timers # {}
    /\ \E c \in Conns : pool[p].conns[c].state = "rejected"

\* C11: a connection that has sent bind_transceiver does not stay in BINDING
\* forever: it leaves that state (bind timeout, back to DISCONNECTED with a
\* reconnect scheduled) even when no bind_resp arrives.
C11_BindingEnds ==
  \A p \in Peers, c \in Conns :
    (pool[p].conns[c].state = "binding") ~> (pool[p].conns[c].state # "binding")

\* C12: a GET /send_sms request that passed validation is eventually answered,
\* with exactly one response; a request whose submit_sm gets no submit_sm_resp
\* (the peer stays silent, or the connection closes first) is answered too.
C12_RequestAnswered ==
  \A r \in Requests :
    (requests[r].pc \in {"waiting", "submitted"})
      ~> (requests[r].pc = "done" /\ Len(requests[r].responses) = 1)

\* The submit_sm_resp the callback of request r was called with.
Answered(r) == requests[r].pc = "done" /\ requests[r].answer # <<>>

\* `${status}` of the non-zero statuses, written out.
StatusText == (8 :> <<"8">>) @@ (88 :> <<"8", "8">>)

\* The 500 reply to a refused submit_sm.
RefusedReply(r) ==
  LET a == requests[r].answer[1]
  IN a.command_status # 0 =>
       requests[r].responses =
         <<[status |-> 500,
            body |-> <<"Error: SMPP submit_sm failed (">>
                       \o StatusText[a.command_status] \o <<")">>]>>

\* C13 as stated: a submit_sm_resp with command_status 0 and message_id M is
\* answered 200 'OK - message_id=M' for every M, and one with non-zero status
\* S is answered 500 'Error: SMPP submit_sm failed (S)'.
C13_ReplyEchoesId ==
  \A r \in Requests :
    Answered(r) =>
      LET a == requests[r].answer[1]
      IN /\ a.command_status = 0 =>
              requests[r].responses =
                <<[status |-> 200, body |-> <<"OK - message_id=">> \o a.message_id]>>
         /\ RefusedReply(r)

\* C13 amended: status 0 with a message_id M that is neither empty nor
\* 'msg_id_not_implemented' is answered 200 'OK - message_id=M'; status 0 with
\* an empty or placeholder message_id is answered 200
\* 'OK - message_id=app-<Date.now()>'; non-zero status S is answered 500
\* 'Error: SMPP submit_sm failed (S)'.
C13_ReplyWithId ==
  \A r \in Requests :
    Answered(r) =>
      LET a == requests[r].answer[1]
          usable == a.message_id \notin {<<>>, <<"msg_id_not_implemented">>}
      IN /\ (a.command_status = 0 /\ usable) =>
              requests[r].responses =
                <<[status |-> 200, body |-> <<"OK - message_id=">> \o a.message_id]>>
         /\ (a.command_status = 0 /\ ~usable) =>
              \E now \in Nows :
                requests[r].responses =
                  <<[status |-> 200,
                     body |-> <<"OK - message_id=", "app-">> \o now]>>
         /\ RefusedReply(r)

\* A request answered 200 after a submit_sm_resp that carries the placeholder.
C13_Witness ==
  \E r \in Requests :
    /\ Answered(r)
    /\ requests[r].answer[1] =
         [command_status |-> 0, message_id |-> <<"msg_id_not_implemented">>]
    /\ requests[r].responses[1].status = 200

\* A step in which a turn of waitForBoundPeer's loop runs for request r.
PollStep(r) ==
  /\ requests[r].pc \in {"idle", "done", "waiting"}
  /\ requests'[r] # requests[r]
  /\ requests'[r].wait # "none"

\* What waitForBoundPeer has decided so far for the requests that called it:
\* with a peer bound at the call it returned true and never slept, and it
\* returned true only on a poll that saw a bound peer.
C14_WaitResult ==
  \A r \in Requests :
    requests[r].wait # "none" =>
      /\ requests[r].boundAtCall =>
           requests[r].wait = "true" /\ requests[r].sleeps = 0
      /\ requests[r].wait = "true" => requests[r].seen # {}
      /\ requests[r].wait = "false" =>
           requests[r].elapsed >= MaxPolls /\ requests[r].seen = {}

\* Each turn of the loop: false once the timeout has elapsed, else true when
\* a peer is bound at this poll, else another sleep.
C14_PollRule ==
  [][\A r \in Requests :
       PollStep(r) =>
         requests'[r].wait =
           IF requests'[r].elapsed >= MaxPolls THEN "false"
           ELSE IF \E p \in Peers : PeerBound(p) THEN "true"
           ELSE "sleeping"]_vars

\* C14: waitForBoundPeer returns true without sleeping when a peer is bound at
\* the call, returns true as soon as a poll sees a bound peer, returns false
\* once the timeout has elapsed with no peer seen bound, never returns true on
\* a poll that saw no bound peer, and always returns.
C14_WaitForBoundPeer ==
  /\ []C14_WaitResult
  /\ C14_PollRule
  /\ \A r \in Requests :
       (requests[r].wait = "sleeping") ~> (requests[r].wait \in {"true", "false"})

\* waitForBoundPeer returned true on a later poll, after sleeping.
C14_Witness ==
  \E r \in Requests :
    /\ requests[r].wait = "true"
    /\ requests[r].sleeps > 0
    /\ ~requests[r].boundAtCall

\* C15: a request for which waitForBoundPeer timed out, or for which
\* routeToPeer returned no peer, is answered 503 'No SMPP peer available' and
\* no submit_sm is sent for it.
C15_NoPeer503 ==
  \A r \in Requests :
    (\/ requests[r].wait = "false"
     \/ requests[r].routed /\ requests[r].peer = NULL) =>
      /\ requests[r].pc = "done"
      /\ requests[r].responses =
           <<[status |-> 503, body |-> <<"No SMPP peer available">>]>>
      /\ requests[r].submits = <<>>

\* A request answered 503 although a peer was bound: its destination matched
\* no bound peer's regex and the default peer was not bound.
C15_Witness ==
  \E r \in Requests :
    /\ requests[r].pc = "done"
    /\ requests[r].wait = "true"
    /\ requests[r].seen # {}
    /\ requests[r].routed
    /\ requests[r].peer = NULL

\* C16: a request sends at most one submit_sm, on the peer the router
\* returned for it and on that peer only; a refusal, a missing response or a
\* lost session sends no second one.
C16_OneSubmit ==
  \A r \in Requests :
    /\ Len(requests[r].submits) <= 1
    /\ requests[r].submits # <<>> =>
         /\ requests[r].routed
         /\ requests[r].peer # NULL
         /\ requests[r].submits[1].peer = requests[r].peer

\* A request answered 500 after its one submit_sm was refused, and a request
\* whose submit_sm went out on a connection that has closed since.
C16_Witness ==
  \E r \in Requests :
    /\ Len(requests[r].submits) = 1
    /\ \/ /\ Answered(r)
          /\ requests[r].answer[1].command_status # 0
       \/ /\ requests[r].pc = "submitted"
          /\ LET pdu == requests[r].submits[1]
             IN pool[pdu.peer].conns[pdu.conn].state = "closed"

\* A TON / NPI field of a submit_sm: the configured value, 1 when the peer
\* entry has none.
FieldAsConfigured(sent, configured) ==
  sent = IF configured = <<>> THEN 1 ELSE configured[1]

\* C17: the submit_sm of a request carries the selected peer's configured
\* source_addr_ton, source_addr_npi, dest_addr_ton and dest_addr_npi (0
\* included), 1 for a setting the peer entry does not have, and
\* registered_delivery 1.
C17_SubmitAddrFields ==
  \A r \in Requests :
    requests[r].submits # <<>> =>
      LET pdu == requests[r].submits[1]
          conf == addrConf[pdu.peer]
      IN /\ FieldAsConfigured(pdu.source_addr_ton, conf.source_addr_ton)
         /\ FieldAsConfigured(pdu.source_addr_npi, conf.source_addr_npi)
         /\ FieldAsConfigured(pdu.dest_addr_ton, conf.dest_addr_ton)
         /\ FieldAsConfigured(pdu.dest_addr_npi, conf.dest_addr_npi)
         /\ pdu.registered_delivery = 1

\* C18: a call of forwardToKamailio makes at least 1 and at most 3 attempts, a
\* further attempt only after a failed one; it returns as soon as an attempt
\* succeeds (after 0, 1 or 2 failures) and throws exactly when 3 attempts
\* failed.
C18_EgressAttempts ==
  \A h \in Handlers :
    handlers[h].pc # "idle" =>
      LET t == handlers[h].tries
          n == Len(t)
      IN /\ handlers[h].egress = "pending" =>
              n < 3 /\ \A k \in 1..n : ~t[k]
         /\ handlers[h].egress = "ok" =>
              n \in 1..3 /\ t[n] /\ \A k \in 1..(n - 1) : ~t[k]
         /\ handlers[h].egress = "failed" =>
              n = 3 /\ \A k \in 1..n : ~t[k]
         /\ handlers[h].egress \in {"pending", "ok", "failed"}

\* A call that returned after two failed attempts and a successful third.
C18_Witness ==
  \E h \in Handlers :
    /\ handlers[h].egress = "ok"
    /\ handlers[h].tries = <<FALSE, FALSE, TRUE>>

\* C19: a submit_sm received on a server session that has completed no
\* successful bind_transmitter or bind_transceiver is not forwarded to the
\* HTTP egress; it is answered with generic_nack, ESME_RINVBNDSTS (4).
C19_UnboundSubmitRefused ==
  \A s \in Sessions :
    (server[s].sub.pc # "idle" /\ ~server[s].sub.boundAtRecv) =>
      /\ server[s].sub.tries = <<>>
      /\ server[s].sub.egress = "none"
      /\ server[s].sub.resps =
           <<[command |-> "generic_nack", command_status |-> 4]>>

\* The credential pairs of the configuration, written out.
CredentialPairs == {<<"kamailio", "secret">>, <<"esme2", "pw2">>}

\* The answer to the last bind PDU of session s, for the commands in cmds: a
\* bind with a configured credential pair is answered with command_status 0
\* and system_id 'SMPP-GATEWAY', the connection is kept and the client is in
\* the BOUND_* state of its command; any other bind is answered with
\* ESME_RBINDFAIL (13) and the server closes the connection.
BindAnswered(s, cmds) ==
  LET bind == server[s].lastBind
  IN bind.command \in cmds =>
       IF <<bind.system_id, bind.password>> \in CredentialPairs
       THEN /\ bind.resp = <<[command_status |-> 0, system_id |-> "SMPP-GATEWAY"]>>
            /\ ~bind.closed
            /\ server[s].bound =
                 CASE bind.command = "bind_transmitter" -> "BOUND_TX"
                   [] bind.command = "bind_receiver" -> "BOUND_RX"
                   [] OTHER -> "BOUND_TRX"
       ELSE /\ Len(bind.resp) = 1
            /\ bind.resp[1].command_status = 13
            /\ bind.closed
            /\ server[s].state \in {"closing", "closed"}

\* C20: each of bind_transmitter, bind_receiver and bind_transceiver is
\* answered that way.
C20_BindAnswered ==
  \A s \in Sessions :
    BindAnswered(s, {"bind_transmitter", "bind_receiver", "bind_transceiver"})

\* C21: the submit_sm handler of a server session sends no submit_sm_resp
\* while the HTTP egress call is pending and exactly one when it has ended:
\* command_status 0 with message_id 'msg-<millis>' after a successful
\* attempt, ESME_RSYSERR (8) after three failed attempts.
C21_SubmitAnswered ==
  \A s \in Sessions :
    LET sub == server[s].sub
    IN /\ sub.pc = "egress" => sub.resps = <<>>
       /\ sub.pc = "done" =>
            /\ Len(sub.resps) = 1
            /\ sub.resps[1].command = "submit_sm_resp"
            /\ IF sub.tries # <<>> /\ sub.tries[Len(sub.tries)]
               THEN /\ sub.resps[1].command_status = 0
                    /\ \E now \in Nows :
                         sub.resps[1].message_id = <<"msg-">> \o now
               ELSE /\ sub.tries = <<FALSE, FALSE, FALSE>>
                    /\ sub.resps[1].command_status = 8

\* A submit_sm answered ESME_RSYSERR after three failed attempts.
C21_Witness ==
  \E s \in Sessions :
    /\ server[s].sub.pc = "done"
    /\ server[s].sub.tries = <<FALSE, FALSE, FALSE>>
    /\ server[s].sub.resps[1].command_status = 8

\* C22: a server session that has received unbind has been sent unbind_resp
\* and is being closed by the server.
C22_UnbindAnswered ==
  \A s \in Sessions :
    server[s].unbind.received =>
      /\ server[s].unbind.resp = <<[command |-> "unbind_resp", command_status |-> 0]>>
      /\ server[s].state \in {"closing", "closed"}

\* The query of a request lacks from, to or text.
Incomplete(q) == q.from = <<>> \/ q.to = <<>> \/ q.text = <<>>

\* A request with an incomplete query is answered 400 at once: it did not wait
\* for a bound peer, was not routed and sent no submit_sm.
C23_Answered400 ==
  \A r \in Requests :
    (requests[r].pc # "idle" /\ Incomplete(requests[r].query)) =>
      /\ requests[r].pc = "done"
      /\ Len(requests[r].responses) = 1
      /\ requests[r].responses[1].status = 400
      /\ requests[r].wait = "none"
      /\ requests[r].sleeps = 0
      /\ ~requests[r].routed
      /\ requests[r].submits = <<>>

\* C23: a GET /send_sms request missing from, to or text is answered 400 (as
\* above), and its arrival changes no peer's session state.
C23_MissingParams ==
  /\ []C23_Answered400
  /\ [][\A r \in Requests :
          (requests'[r] # requests[r] /\ Incomplete(requests'[r].query))
            => pool' = pool]_vars

\* A request without text answered 400 while a peer is bound.
C23_Witness ==
  \E r \in Requests :
    /\ requests[r].pc = "done"
    /\ requests[r].query.from # <<>>
    /\ requests[r].query.to # <<>>
    /\ requests[r].query.text = <<>>
    /\ requests[r].responses[1].status = 400
    /\ \E p \in Peers : PeerBound(p)

\* C24: events of a superseded connection do not disturb the current one: a
\* peer whose newest connection is bound and open is reported as bound, on
\* that connection.
C24_CurrentBoundReported ==
  \A p \in Peers :
    LET c == pool[p].current
    IN (c # NULL /\ pool[p].conns[c].state = "bound" /\ ~pool[p].conns[c].dying)
         => PeerBound(p) /\ PeerState(p).session = c

\* Connections of peer p that are open and that the bridge has not closed.
OpenConns(p) ==
  {c \in Conns : pool[p].conns[c].state # "closed" /\ ~pool[p].conns[c].dying}

\* C25: a peer has at most one open connection made by the bridge: every
\* earlier one, a connection whose bind was refused included, has been closed
\* before connectSMPPPeer opens the next.
C25_OneOpenConnection ==
  \A p \in Peers : Cardinality(OpenConns(p)) <= 1

\* C26: every deliver_sm_resp is written to the connection its deliver_sm
\* came in on, whatever happened to the connections during the HTTP egress
\* call: in the multi-peer bridge and in the single-peer bridge.
C26_RespOnSameConnection ==
  /\ \A h \in Handlers :
       \A k \in 1..Len(handlers[h].resps) :
         handlers[h].resps[k].conn = handlers[h].conn
  /\ \A k \in 1..Len(single.handler.resps) :
       single.handler.resps[k].conn = single.handler.conn

\* No request was answered by the "no valid session" branch of the handler.
C27_BranchNotTaken ==
  \A r \in Requests :
    \A k \in 1..Len(requests[r].responses) :
      requests[r].responses[k].body # <<"No valid SMPP session, retry later">>

\* C27: the step in which a request calls submit_sm finds the routed peer
\* bound with a session, and calls it on that session; the branch that
\* answers 503 'No valid SMPP session, retry later' is never taken.
C27_SubmitOnBoundPeer ==
  /\ []C27_BranchNotTaken
  /\ [][\A r \in Requests :
          (requests'[r].submits # <<>> /\ requests[r].submits # requests'[r].submits)
            => LET pdu == requests'[r].submits[1]
               IN /\ PeerState(pdu.peer).isBound
                  /\ PeerState(pdu.peer).session # NULL
                  /\ PeerState(pdu.peer).session = pdu.conn
                  /\ pool' = pool]_vars

\* A request that slept in waitForBoundPeer and then sent its submit_sm on the
\* session of a peer that is bound.
C27_Witness ==
  \E r \in Requests :
    /\ requests[r].pc = "submitted"
    /\ requests[r].sleeps > 0
    /\ PeerBound(requests[r].submits[1].peer)
    /\ PeerState(requests[r].submits[1].peer).session = requests[r].submits[1].conn

\* C28: a connection never has more than one 'pdu' listener, and has one only
\* after its bind was accepted, so a deliver_sm starts one forwardToKamailio
\* call; a handler in flight is one call, of at most 3 attempts.
C28_OnePduListener ==
  /\ \A p \in Peers, c \in Conns :
       /\ pool[p].conns[c].pduListeners <= 1
       /\ pool[p].conns[c].pduListeners = 1 =>
            /\ pool[p].conns[c].bindResps # <<>>
            /\ pool[p].conns[c].bindResps[Len(pool[p].conns[c].bindResps)] = 0
  /\ \A h \in Handlers :
       handlers[h].pc = "egress" =>
         /\ handlers[h].attempt = Len(handlers[h].tries) + 1
         /\ handlers[h].attempt <= 3

\* A deliver_sm being forwarded for a connection that was bound after a
\* reconnect: the peer's first connection is gone.
C28_Witness ==
  \E h \in Handlers :
    /\ handlers[h].pc = "egress"
    /\ handlers[h].conn # 1
    /\ pool[handlers[h].peer].conns[handlers[h].conn].pduListeners = 1
    /\ pool[handlers[h].peer].conns[handlers[h].conn].state = "bound"

\* Every peer has an entry in peerSessions, with its four fields.
C29_EntryKept ==
  \A p \in Peers :
    /\ pool[p].entry \in Objs
    /\ DOMAIN PeerState(p) = {"session", "isBound", "isConnecting", "reconnectTimeout"}

\* C29: a connect, bind_resp, close, error or timer event of one peer leaves
\* the isBound, isConnecting, session and reconnectTimeout of every other
\* peer as they were, and every peer keeps its entry in peerSessions.
C29_PeersIndependent ==
  /\ []C29_EntryKept
  /\ [][\A p \in Peers :
          pool'[p] # pool[p] =>
            \A q \in Peers \ {p} :
              /\ PeerState(q)' = PeerState(q)
              /\ pool'[q].timers = pool[q].timers]_vars

\* One peer bound while the other, its connection lost, waits for its
\* reconnect timer.
C29_Witness ==
  \E p, q \in Peers :
    /\ PeerBound(p)
    /\ ~PeerBound(q)
    /\ pool[q].timers # {}
    /\ \A c \in Conns : pool[q].conns[c].state = "closed"

====
